---- MODULE Spec2Model ----
(***************************************************************************)
(* Model of handler(job) in handler.py: the RunPod job handler that        *)
(* validates a job payload, allocates a temporary output directory, calls  *)
(* the external infer routine and returns the path of the produced file.   *)
(*                                                                         *)
(* Python values are tagged records [t, i, s]; a key missing from a        *)
(* mapping is the value Absent.  A directory listing is a sequence of      *)
(* children in the order the operating system lists them.                  *)
(***************************************************************************)
EXTENDS Integers, Sequences, FiniteSets, TLC

\* ------------------------------------------------------------------ bounds
\* longest conditioning_images list of a payload
MaxImages == 2
\* most children infer leaves in an output directory
MaxFiles == 2
\* jobs served one after the other by one worker (SpecSeq)
MaxJobs == 2

\* ---------------------------------------------------------- Python values
Absent == [t |-> "absent", i |-> 0, s |-> ""]
PyInt(n) == [t |-> "int", i |-> n, s |-> ""]
PyStr(x) == [t |-> "str", i |-> 0, s |-> x]
\* a float, kept in tenths
PyFloat(n) == [t |-> "float", i |-> n, s |-> ""]

DEFAULT_HEIGHT == 704

\* dict.get(key, default): the default only when the key is missing
Get(v, default) == IF v.t = "absent" THEN default ELSE v

\* dict.get(key): None when the key is missing
IsNone(v) == v.t = "absent"

\* Python truth value of a payload field
Truthy(v) ==
    CASE v.t = "absent" -> FALSE
      [] v.t = "str" -> v.s # ""
      [] v.t = "int" -> v.i # 0
      [] v.t = "float" -> v.i # 0

\* the decimal strings of the payloads, with the integer each denotes
Numerals == [x \in {"7"} |-> 7]

\* int(v): the integer, or the ValueError it raises
IntOf(v) ==
    CASE v.t = "int" -> [ok |-> TRUE, i |-> v.i, msg |-> ""]
      [] v.t = "float" -> [ok |-> TRUE, i |-> v.i \div 10, msg |-> ""]
      [] v.t = "str" /\ v.s \in DOMAIN Numerals ->
            [ok |-> TRUE, i |-> Numerals[v.s], msg |-> ""]
      [] v.t = "str" /\ v.s \notin DOMAIN Numerals ->
            [ok |-> FALSE, i |-> 0,
             msg |-> "invalid literal for int() with base 10: '" \o v.s \o "'"]
      [] OTHER -> [ok |-> FALSE, i |-> 0,
             msg |-> "int() argument must be a string, a bytes-like object or a real number, not 'NoneType'"]

\* float(v), in tenths, or the ValueError it raises
FloatOf(v) ==
    CASE v.t = "int" -> [ok |-> TRUE, i |-> v.i * 10, msg |-> ""]
      [] v.t = "float" -> [ok |-> TRUE, i |-> v.i, msg |-> ""]
      [] v.t = "str" /\ v.s \in DOMAIN Numerals ->
            [ok |-> TRUE, i |-> Numerals[v.s] * 10, msg |-> ""]
      [] v.t = "str" /\ v.s \notin DOMAIN Numerals ->
            [ok |-> FALSE, i |-> 0,
             msg |-> "could not convert string to float: '" \o v.s \o "'"]
      [] OTHER -> [ok |-> FALSE, i |-> 0,
             msg |-> "float() argument must be a string or a real number, not 'NoneType'"]

\* ---------------------------------------------------------------- payloads
Urls == {Absent, PyStr(""), PyStr("http://img/a.png")}
StartFrames == {Absent, PyInt(0), PyStr("abc")}
Strengths == {Absent, PyFloat(5), PyStr("x")}

\* conditioning entries; strength is only coerced (line 75) once url and
\* start_frame passed the check of line 69 and int(start_frame) succeeded
Entries ==
    {[url |-> u, start_frame |-> f, strength |-> Absent] :
        u \in Urls, f \in StartFrames}
    \cup {[url |-> PyStr("http://img/a.png"), start_frame |-> PyInt(0), strength |-> g] :
        g \in Strengths}

SeqsUpTo(S, n) == UNION {[1..k -> S] : k \in 0..n}

Prompts == {Absent, PyStr(""), PyStr("a cat")}
Heights == {Absent, PyInt(512), PyStr("tall")}

\* job['input'] when the job has one
Inputs ==
    {[prompt |-> p, height |-> h, conditioning_images |-> c] :
        p \in Prompts, h \in Heights,
        c \in {[present |-> FALSE, items |-> <<>>]}
              \cup {[present |-> TRUE, items |-> e] : e \in SeqsUpTo(Entries, MaxImages)}}

EmptyInput ==
    [prompt |-> Absent, height |-> Absent,
     conditioning_images |-> [present |-> FALSE, items |-> <<>>]]

\* every job payload: without 'input', or with one
JobInputs ==
    {[has_input |-> FALSE, input |-> EmptyInput]}
    \cup {[has_input |-> TRUE, input |-> i] : i \in Inputs}

\* job.get('input', {})
JobInput(j) == IF j.has_input THEN j.input ELSE EmptyInput

\* the payloads of the jobs a worker serves one after the other (SpecSeq)
SeqEntries ==
    {e \in Entries : e.strength = Absent /\ e.url # PyStr("")
                     /\ (e.url = Absent => e.start_frame = PyInt(0))}
SeqJobInputs ==
    {j \in JobInputs :
        /\ j.has_input
        /\ j.input.prompt # PyStr("")
        /\ j.input.height \in {Absent, PyStr("tall")}
        /\ j.input.conditioning_images.present
        /\ Len(j.input.conditioning_images.items) <= 1
        /\ \A k \in DOMAIN j.input.conditioning_images.items :
              j.input.conditioning_images.items[k] \in SeqEntries}

\* ------------------------------------------------------------- file system
\* the names tempfile.mkdtemp(prefix="ltx_video_output_") can return
DirNames ==
    {"/tmp/ltx_video_output_a", "/tmp/ltx_video_output_b", "/tmp/ltx_video_output_c"}

\* children of an output directory: files, and a subdirectory; holds is the
\* suffix of the file inside the subdirectory
File(stem, suffix) == [stem |-> stem, suffix |-> suffix, kind |-> "file", holds |-> ""]
Children ==
    {File("video_0", ".mp4"), File("video_1", ".mp4"), File("frame_0", ".png"),
     File("notes", ".txt"),
     [stem |-> "nested", suffix |-> "", kind |-> "dir", holds |-> ".mp4"]}

Injective(q) == \A a, b \in DOMAIN q : q[a] = q[b] => a = b

\* what infer can leave in the directory it was given, in listing order
Listings == {l \in SeqsUpTo(Children, MaxFiles) : Injective(l)}

\* what infer leaves when jobs follow one another (SpecSeq)
SeqListings ==
    {<<>>, <<File("video_0", ".mp4")>>, <<File("frame_0", ".png"), File("video_0", ".mp4")>>}

\* messages of the exceptions the collaborators raise
ExcMessages == {"CUDA out of memory", "model not found"}
OsErrors == {"[Errno 28] No space left on device"}

NoDir == [exists |-> FALSE, children |-> <<>>]

\* ------------------------------------------------------------------ results
ERR_PROMPT == "Prompt is a required input."
ERR_NO_COND == "At least one conditioning image (first frame) is required for image-to-video."
ERR_ENTRY == "Each conditioning image must have a 'url' and 'start_frame'."
ERR_NO_VALID == "No valid conditioning images provided or processed."
ERR_NO_OUTPUT == "Inference completed but no output video/image file found."

NoResult == [kind |-> "none", key |-> "", value |-> ""]
\* return {"error": text}
Err(text) == [kind |-> "return", key |-> "error", value |-> text]
\* return {"output_video": path}
Video(path) == [kind |-> "return", key |-> "output_video", value |-> path]
\* an exception leaving handler
Raised(msg) == [kind |-> "raise", key |-> "", value |-> msg]

NoFault == [step |-> "none", msg |-> ""]

\* str(Path(dir) / name)
PathStr(dir, child) == dir \o "/" \o child.stem \o child.suffix

\* a scan that descends into subdirectories (rglob)
Glob_recursive(children, suffix) ==
    SelectSeq(children, LAMBDA c : c.suffix = suffix \/ c.holds = suffix)

\* list(job_output_dir.glob("*" + suffix)): the children whose name ends in
\* the suffix, in listing order; the scan does not descend
Glob(children, suffix) == SelectSeq(children, LAMBDA c : c.suffix = suffix)

\* a scan for images only
OutputFiles_pngOnly(children) == Glob(children, ".png")

\* one scan for both patterns, in listing order
OutputFiles_listingOrder(children) ==
    SelectSeq(children, LAMBDA c : c.suffix \in {".mp4", ".png"})

\* line 121
OutputFiles(children) == Glob(children, ".mp4") \o Glob(children, ".png")

\* a check for the empty string only
PromptMissing_emptyOnly(inp) == inp.prompt = PyStr("")

\* line 27: not prompt
PromptMissing(inp) == ~Truthy(inp.prompt)

\* a check for the missing key only
ConditioningMissing_absentOnly(inp) == ~inp.conditioning_images.present

\* line 37-38: not job_input.get('conditioning_images', [])
ConditioningMissing(inp) ==
    \/ ~inp.conditioning_images.present
    \/ Len(inp.conditioning_images.items) = 0

\* line 69: not url or start_frame is None
EntryIncomplete(e) == ~Truthy(e.url) \/ IsNone(e.start_frame)

EmptyCond == [paths |-> <<>>, frames |-> <<>>, strengths |-> <<>>]

\* lines 64-75: the loop over the conditioning entries, from entry k on
RECURSIVE Loop(_, _, _)
Loop(items, k, acc) ==
    IF k > Len(items) THEN [status |-> "ok", msg |-> "", cond |-> acc]
    ELSE LET e == items[k]
             strength == Get(e.strength, PyFloat(10))
         IN IF EntryIncomplete(e)
            THEN [status |-> "return", msg |-> ERR_ENTRY, cond |-> acc]
            ELSE IF ~IntOf(e.start_frame).ok
            THEN [status |-> "raise", msg |-> IntOf(e.start_frame).msg, cond |-> acc]
            ELSE IF ~FloatOf(strength).ok
            THEN [status |-> "raise", msg |-> FloatOf(strength).msg,
                  cond |-> [acc EXCEPT !.paths = Append(@, e.url.s),
                                       !.frames = Append(@, IntOf(e.start_frame).i)]]
            ELSE Loop(items, k + 1,
                      [paths |-> Append(acc.paths, e.url.s),
                       frames |-> Append(acc.frames, IntOf(e.start_frame).i),
                       strengths |-> Append(acc.strengths, FloatOf(strength).i)])

\* a directory name chosen without looking at the existing ones
FreshDirs_any(f) == DirNames

\* line 58: the names mkdtemp can create, those of no existing directory
FreshDirs(f) == {d \in DirNames : ~f[d].exists}

\* lines 136-141: the result the except clause makes of an exception
Caught(msg) == Err("Inference failed: " \o msg)

VARIABLES
    pc,              \* where handler is: idle, a step, returned or raised
    job,             \* the payload of the invocation
    fs,              \* the temporary directories and their children
    job_output_dir,  \* line 58
    cond,            \* conditioning_media_paths, _start_frames, _strengths
    result,          \* what the invocation returned or raised
    fault,           \* the last exception raised in the invocation, and where
    inferCalls,      \* calls of infer in the invocation
    inferLog,        \* output_path of every call of infer so far
    served           \* invocations so far

vars == <<pc, job, fs, job_output_dir, cond, result, fault, inferCalls, inferLog, served>>

Init ==
    /\ pc = "idle"
    /\ job = [has_input |-> FALSE, input |-> EmptyInput]
    /\ fs = [d \in DirNames |-> NoDir]
    /\ job_output_dir = ""
    /\ cond = EmptyCond
    /\ result = NoResult
    /\ fault = NoFault
    /\ inferCalls = 0
    /\ inferLog = <<>>
    /\ served = 0

\* the runtime calls handler(job); it does so again once handler returned
Invoke(j) ==
    /\ pc \in {"idle", "returned"}
    /\ pc' = "prompt"
    /\ job' = j
    /\ job_output_dir' = ""
    /\ cond' = EmptyCond
    /\ result' = NoResult
    /\ fault' = NoFault
    /\ inferCalls' = 0
    /\ served' = served + 1
    /\ UNCHANGED <<fs, inferLog>>

\* the first job of a fresh worker: any payload
InvokeFirst == served = 0 /\ \E j \in JobInputs : Invoke(j)

\* one job after the other
InvokeNext == served < MaxJobs /\ \E j \in SeqJobInputs : Invoke(j)

\* return r
Return(r) ==
    /\ pc' = "returned"
    /\ result' = r

\* an exception leaves handler
Propagate(step, msg) ==
    /\ pc' = "raised"
    /\ result' = Raised(msg)
    /\ fault' = [step |-> step, msg |-> msg]

\* lines 23-28
CheckPrompt ==
    /\ pc = "prompt"
    /\ IF PromptMissing(JobInput(job))
       THEN Return(Err(ERR_PROMPT))
       ELSE pc' = "conditioning" /\ UNCHANGED result
    /\ UNCHANGED <<job, fs, job_output_dir, cond, fault, inferCalls, inferLog, served>>

\* lines 30-43
CheckConditioning ==
    /\ pc = "conditioning"
    /\ IF ConditioningMissing(JobInput(job))
       THEN Return(Err(ERR_NO_COND))
       ELSE pc' = "mkdtemp" /\ UNCHANGED result
    /\ UNCHANGED <<job, fs, job_output_dir, cond, fault, inferCalls, inferLog, served>>

\* line 58: mkdtemp creates a directory and returns its name
Mkdtemp ==
    /\ pc = "mkdtemp"
    /\ \E d \in FreshDirs(fs) :
          /\ fs' = [fs EXCEPT ![d] = [exists |-> TRUE, children |-> <<>>]]
          /\ job_output_dir' = d
    /\ pc' = "entries"
    /\ UNCHANGED <<job, cond, result, fault, inferCalls, inferLog, served>>

\* line 58: mkdtemp raises; the call is outside the try block
MkdtempFails ==
    /\ pc = "mkdtemp"
    /\ \E m \in OsErrors : Propagate("mkdtemp", m)
    /\ UNCHANGED <<job, fs, job_output_dir, cond, inferCalls, inferLog, served>>

\* lines 64-78: the loop is outside the try block
ProcessEntries ==
    /\ pc = "entries"
    /\ LET r == Loop(JobInput(job).conditioning_images.items, 1, EmptyCond)
       IN /\ cond' = r.cond
          /\ CASE r.status = "return" -> Return(Err(r.msg)) /\ UNCHANGED fault
               [] r.status = "raise" -> Propagate("entries", r.msg)
               [] r.status = "ok" /\ Len(r.cond.paths) = 0 ->
                     Return(Err(ERR_NO_VALID)) /\ UNCHANGED fault
               [] OTHER -> pc' = "device" /\ UNCHANGED <<result, fault>>
    /\ UNCHANGED <<job, fs, job_output_dir, inferCalls, inferLog, served>>

\* no except clause: the exception leaves handler
Except_reraise(step, msg) == Propagate(step, msg)

\* the except clause of lines 136-141 ends the invocation
Except(step, msg) ==
    /\ fault' = [step |-> step, msg |-> msg]
    /\ Return(Caught(msg))

\* line 83
GetDevice ==
    /\ pc = "device"
    /\ pc' = "call"
    /\ UNCHANGED <<job, fs, job_output_dir, cond, result, fault, inferCalls, inferLog, served>>

\* line 83: get_device raises
GetDeviceRaises ==
    /\ pc = "device"
    /\ \E m \in ExcMessages : Except("get_device", m)
    /\ UNCHANGED <<job, fs, job_output_dir, cond, inferCalls, inferLog, served>>

\* line 100: int(height); width, num_frames, frame_rate and seed are coerced
\* the same way on lines 97-103
HeightArg(inp) == IntOf(Get(inp.height, PyInt(DEFAULT_HEIGHT)))

\* lines 95-103: an argument of the call does not convert; infer is not called
ArgumentFails ==
    /\ pc = "call"
    /\ ~HeightArg(JobInput(job)).ok
    /\ Except("arguments", HeightArg(JobInput(job)).msg)
    /\ UNCHANGED <<job, fs, job_output_dir, cond, inferCalls, inferLog, served>>

\* lines 95-112: infer is called with output_path = job_output_dir, wrote the
\* children l there
InferCalled(l) ==
    /\ pc = "call"
    /\ HeightArg(JobInput(job)).ok
    /\ fs' = [fs EXCEPT ![job_output_dir].children = @ \o l]
    /\ inferCalls' = inferCalls + 1
    /\ inferLog' = Append(inferLog, job_output_dir)
    /\ UNCHANGED <<job, job_output_dir, cond, served>>

\* infer returns normally
InferReturns(l) ==
    /\ InferCalled(l)
    /\ pc' = "locate"
    /\ UNCHANGED <<result, fault>>

\* infer raises
InferRaises(l, m) ==
    /\ InferCalled(l)
    /\ Except("infer", m)

\* lines 121-134
LocateOutput ==
    /\ pc = "locate"
    /\ LET output_files == OutputFiles(fs[job_output_dir].children)
       IN IF Len(output_files) = 0
          THEN Return(Err(ERR_NO_OUTPUT))
          ELSE Return(Video(PathStr(job_output_dir, output_files[1])))
    /\ UNCHANGED <<job, fs, job_output_dir, cond, fault, inferCalls, inferLog, served>>

\* the steps of handler between its call and its end
Step(L) ==
    \/ CheckPrompt
    \/ CheckConditioning
    \/ Mkdtemp
    \/ MkdtempFails
    \/ ProcessEntries
    \/ GetDevice
    \/ GetDeviceRaises
    \/ ArgumentFails
    \/ \E l \in L : InferReturns(l)
    \/ \E l \in L, m \in ExcMessages : InferRaises(l, m)
    \/ LocateOutput

Next == InvokeFirst \/ Step(Listings)

\* one invocation of a fresh worker, over every payload
Spec == Init /\ [][Next]_vars

NextSeq == InvokeNext \/ Step(SeqListings)

\* a worker serving up to MaxJobs jobs one after the other
SpecSeq == Init /\ [][NextSeq]_vars

\* ------------------------------------------------------------------ claims
Done == pc \in {"returned", "raised"}
Inp == JobInput(job)
Items == Inp.conditioning_images.items
OutputDirChildren ==
    IF job_output_dir \in DirNames THEN fs[job_output_dir].children ELSE <<>>
InferReturnedNormally == inferCalls = 1 /\ fault.step = "none" /\ pc \in {"locate", "returned"}

\* C1: handler(job) never raises past its own boundary, whatever the payload
\* and even when the temporary directory cannot be allocated.
C1_NeverRaises == pc # "raised"

\* C2: a job whose input has no prompt (or no input at all) ends with exactly
\* {"error": "Prompt is a required input."}, and the check comes first: no
\* later step is reached and no directory is created, whatever else the
\* payload holds.
C2_NoPromptIsPromptError ==
    (served > 0 /\ Inp.prompt = Absent) =>
        /\ pc \in {"prompt", "returned"}
        /\ pc = "returned" => result = Err(ERR_PROMPT)
        /\ \A d \in DirNames : ~fs[d].exists
        /\ inferCalls = 0

C2_Witness ==
    /\ pc = "returned"
    /\ job.has_input
    /\ Inp.prompt = Absent
    /\ Inp.conditioning_images.present
    /\ Len(Items) = 2
    /\ Items[2].start_frame = PyStr("abc")
    /\ result = Err(ERR_PROMPT)

\* the error texts that mention conditioning images
MentionsConditioning == {ERR_NO_COND, ERR_ENTRY, ERR_NO_VALID}

\* C3: a job with a prompt whose conditioning_images is empty or absent ends
\* with an error that mentions conditioning images, and infer is never called.
C3_NoConditioningIsError ==
    (Truthy(Inp.prompt) /\ (~Inp.conditioning_images.present \/ Len(Items) = 0)) =>
        /\ pc # "raised"
        /\ inferCalls = 0
        /\ pc = "returned" =>
              result.key = "error" /\ result.value \in MentionsConditioning

C3_Witness ==
    /\ pc = "returned"
    /\ Truthy(Inp.prompt)
    /\ Inp.conditioning_images.present
    /\ Len(Items) = 0
    /\ result = Err(ERR_NO_COND)
    /\ inferCalls = 0

\* C4: a job with a prompt and a conditioning list in which some entry, at
\* any position, lacks url or start_frame ends with an error result, and
\* infer is never called.
C4_IncompleteEntryIsError ==
    (/\ Done
     /\ Truthy(Inp.prompt)
     /\ \E k \in DOMAIN Items :
           Items[k].url = Absent \/ Items[k].start_frame = Absent) =>
        /\ result.kind = "return"
        /\ result.key = "error"
        /\ inferCalls = 0

\* C5: when infer returns normally and the output directory holds the single
\* file video_0.mp4, the result is {"output_video": <that directory>/video_0.mp4}
\* and carries no error.
C5_SingleVideoReturned ==
    (/\ pc = "returned"
     /\ InferReturnedNormally
     /\ OutputDirChildren = <<File("video_0", ".mp4")>>) =>
        /\ result.key = "output_video"
        /\ result.value = job_output_dir \o "/video_0.mp4"

C5_Witness ==
    /\ pc = "returned"
    /\ InferReturnedNormally
    /\ OutputDirChildren = <<File("video_0", ".mp4")>>
    /\ result.key = "output_video"

\* no *.mp4 or *.png file directly in the directory
NoArtifact(children) ==
    \A k \in DOMAIN children :
        ~(children[k].kind = "file" /\ children[k].suffix \in {".mp4", ".png"})

\* C6: when infer returns normally and leaves no *.mp4 or *.png file directly
\* in the output directory, the result is exactly the no-output error; that
\* error is only ever returned after infer has returned.
C6_NoOutputIsError ==
    /\ (pc = "returned" /\ InferReturnedNormally /\ NoArtifact(OutputDirChildren)) =>
          result = Err(ERR_NO_OUTPUT)
    /\ result = Err(ERR_NO_OUTPUT) => InferReturnedNormally

C6_Witness ==
    /\ pc = "returned"
    /\ InferReturnedNormally
    /\ Len(OutputDirChildren) = 2
    /\ \E k \in DOMAIN OutputDirChildren : OutputDirChildren[k].kind = "dir"
    /\ result = Err(ERR_NO_OUTPUT)

\* C7: when infer or get_device raises with message m, handler returns
\* {"error": "Inference failed: m"} instead of raising, infer is called at
\* most once in the invocation, and the next job can be served.
C7_InferenceFailureReturned ==
    /\ inferCalls <= 1
    /\ fault.step \in {"infer", "get_device"} =>
          /\ pc = "returned"
          /\ result = Err("Inference failed: " \o fault.msg)
          /\ inferCalls = (IF fault.step = "infer" THEN 1 ELSE 0)
          /\ served < MaxJobs => ENABLED InvokeNext

C7_Witness ==
    /\ served = MaxJobs
    /\ pc = "returned"
    /\ fault.step = "infer"
    /\ Len(inferLog) = MaxJobs
    /\ result = Err("Inference failed: CUDA out of memory")

\* C8: the output directories passed to infer over a sequence of jobs are
\* pairwise distinct, and a returned output_video is a child of the
\* directory this invocation allocated and passed to infer.
C8_DirectoriesDistinct ==
    /\ Injective(inferLog)
    /\ (pc = "returned" /\ result.key = "output_video") =>
          /\ inferLog[Len(inferLog)] = job_output_dir
          /\ \E k \in DOMAIN OutputDirChildren :
                result.value = PathStr(job_output_dir, OutputDirChildren[k])

C8_Witness ==
    /\ Len(inferLog) = MaxJobs
    /\ pc = "returned"
    /\ result.key = "output_video"

\* C9: an exception raised while allocating the output directory, while
\* calling infer or while scanning is turned into
\* {"error": "Inference failed: <message>"}.
C9_FaultsConverted ==
    (Done /\ fault.step \in {"mkdtemp", "get_device", "arguments", "infer"}) =>
        result = Err("Inference failed: " \o fault.msg)

\* the children matching *.mp4 or *.png, in listing order
Matching(children) == SelectSeq(children, LAMBDA c : c.suffix \in {".mp4", ".png"})
Mp4s(children) == SelectSeq(children, LAMBDA c : c.suffix = ".mp4")
Pngs(children) == SelectSeq(children, LAMBDA c : c.suffix = ".png")

\* C10 as stated: the returned artifact is the first *.mp4 or *.png child in
\* listing order, a .png listed before a .mp4 included.
C10_FirstListed ==
    (pc = "returned" /\ result.key = "output_video") =>
        result.value = PathStr(job_output_dir, Matching(OutputDirChildren)[1])

\* C10 amended: the returned artifact is the first *.mp4 child in listing
\* order when there is one, and only otherwise the first *.png child.
C10_FirstVideoThenImage ==
    (pc = "returned" /\ result.key = "output_video") =>
        result.value =
            PathStr(job_output_dir,
                    IF Len(Mp4s(OutputDirChildren)) > 0
                    THEN Mp4s(OutputDirChildren)[1]
                    ELSE Pngs(OutputDirChildren)[1])

C10_Witness ==
    /\ pc = "returned"
    /\ OutputDirChildren = <<File("frame_0", ".png"), File("video_0", ".mp4")>>
    /\ result = Video(job_output_dir \o "/video_0.mp4")
====
